---- MODULE Spec2Model ----
(***************************************************************************)
(* Model of markschecker3: the term-search pipeline (app/search_service.py) *)
(* and the session/chunk coordinator (app/routes.py over app/db.py).        *)
(*                                                                         *)
(* Eight specifications share this module:                                 *)
(*   SpecBatch  - one SearchService.process_chunk call: the worker pool,   *)
(*                the per-term tasks and the as_completed loop;            *)
(*   Spec       - the HTTP handlers over the sqlite store, with chunk      *)
(*                submissions interleaving at their database statements;   *)
(*   SpecRegion - SearchService.get_region_info over every upstream        *)
(*                outcome;                                                 *)
(*   SpecFetch  - one task: the tiers of _fetch_product_data, then the     *)
(*                rest of _process_term;                                   *)
(*   SpecParse  - SearchService.parse_terms over raw strings;              *)
(*   SpecExtract - SearchService._extract_product_info over product        *)
(*                attribute mappings;                                      *)
(*   SpecTotals - SearchService.process_chunk as one call, from what each  *)
(*                term's task did to the triple returned;                  *)
(*   SpecLimit  - SearchService._resolve_limit over limit values.          *)
(***************************************************************************)
EXTENDS Integers, Sequences, FiniteSets, TLC

(***************************************************************************)
(* Bounds of the model.                                                    *)
(***************************************************************************)
MaxTerms == 2          \* longest term list handed to one process_chunk call
MaxEntities == 2       \* most entities in one fetched product mapping
MaxWorkersCfg == 2     \* largest configured cfg.max_workers
MaxSessions == 1       \* sessions created in one run
MaxChunkTerms == 2     \* longest term list of one chunk submission
MaxSubmissions == 2    \* chunk submissions accepted in one run
MaxRawTokens == 2      \* most fragments in the raw input of a session start
MaxIdLen == 2          \* longest regionId value in a response body
MaxTermLen == 4        \* longest term of one fetch, in characters
MaxRawLen == 4         \* longest raw input of one parse_terms call, in characters
MaxAmount == 8         \* largest price amount of a product entity
MaxLimitInt == 51      \* largest magnitude of an integer limit
MaxLimitLen == 3       \* longest limit string, in characters

(***************************************************************************)
(* State.  Each specification moves its own variables and leaves the       *)
(* others at rest.                                                         *)
(***************************************************************************)
\* one SearchService.process_chunk call
VARIABLES
    bpc,          \* "idle", "loop" (futures submitted) or "returned"
    cfgWorkers,   \* cfg.max_workers
    bterms,       \* terms
    blimit,       \* limit
    barticle,     \* is_article_search
    fut,          \* the futures, by submission index: state and outcome
    yielded,      \* indices as_completed has yielded
    results,      \* results
    total_found,  \* total_found
    processed,    \* processed
    bret          \* the returned (results, total_found, processed)

batchVars == <<bpc, cfgWorkers, bterms, blimit, barticle, fut, yielded,
               results, total_found, processed, bret>>

\* one SearchService.get_region_info call
VARIABLES
    rpc,        \* "idle" or "returned"
    rup,        \* what the cart endpoint did
    rbody,      \* the response body, when there is a response
    rresult     \* what get_region_info gave back

regionVars == <<rpc, rup, rbody, rresult>>

\* the store and the handlers
VARIABLES
    sessions,       \* table sessions: id -> row
    products,       \* table products: session_id -> number of rows
    req,            \* the chunk submissions in progress
    created,        \* sessions created so far (ids are never reused)
    accepted,       \* chunk submissions that passed validation so far
    doneProcessed,  \* per session: sum of processed over finished submissions
    resp,           \* the last response sent
    sreq            \* the session start in progress: "idle", or "resolved"
                    \* with the region_id of the region_info

sessVars == <<sessions, products, req, created, accepted, doneProcessed, resp,
              sreq>>

\* one task: SearchService._fetch_product_data, then the rest of _process_term
VARIABLES
    fpc,        \* "idle", "tier1", "tier2", "fetched", "raised" or "returned"
    fterm,      \* term
    ftier1,     \* what the search endpoint did
    fattempts,  \* the tiers attempted so far, in order
    fpayload,   \* what _fetch_product_data returned
    flimit,     \* limit
    farticle,   \* is_article_search
    fout        \* the (product_list, term_count) pair _process_term returned

fetchVars == <<fpc, fterm, ftier1, fattempts, fpayload, flimit, farticle, fout>>

\* one SearchService.parse_terms call
VARIABLES
    ppc,        \* "idle" or "returned"
    praw,       \* raw_terms
    pret        \* what parse_terms gave back

parseVars == <<ppc, praw, pret>>

\* one SearchService._extract_product_info call
VARIABLES
    xpc,        \* "idle" or "returned"
    xproduct,   \* product
    xret        \* the record returned, or the exception raised

extractVars == <<xpc, xproduct, xret>>

\* one SearchService.process_chunk call, start to end
VARIABLES
    kpc,        \* "idle" or "returned"
    kterms,     \* terms
    kmode,      \* limit and is_article_search
    koutcomes,  \* by submission index: what the term's task did
    kret        \* the returned (results, total_found, processed)

totalVars == <<kpc, kterms, kmode, koutcomes, kret>>

\* one SearchService._resolve_limit call
VARIABLES
    lpc,        \* "idle" or "returned"
    llimit,     \* limit
    lret        \* the value returned

limitVars == <<lpc, llimit, lret>>

vars == <<batchVars, regionVars, sessVars, fetchVars, parseVars, extractVars,
          totalVars, limitVars>>

(***************************************************************************)
(* Program constants.                                                      *)
(***************************************************************************)
LimitCap == 50         \* _resolve_limit: min(limit, 50) and "all"
LimitDefault == 10     \* _resolve_limit: malformed input

Terms == {"t1", "t2"}

Min(a, b) == IF a < b THEN a ELSE b
Max(a, b) == IF a > b THEN a ELSE b

RECURSIVE SeqsUpTo(_, _)
SeqsUpTo(S, n) ==
    IF n = 0 THEN {<<>>}
    ELSE LET shorter == SeqsUpTo(S, n - 1)
         IN  shorter \cup {Append(s, x) : s \in {t \in shorter : Len(t) = n - 1}, x \in S}

\* text is the sequence of its characters; " " is a whitespace character
Whitespace == {" "}

RECURSIVE LStrip(_)
LStrip(s) == IF s # <<>> /\ Head(s) \in Whitespace THEN LStrip(Tail(s)) ELSE s

RECURSIVE RStrip(_)
RStrip(s) ==
    IF s # <<>> /\ s[Len(s)] \in Whitespace THEN RStrip(SubSeq(s, 1, Len(s) - 1)) ELSE s

\* str.strip()
Strip(s) == RStrip(LStrip(s))

RECURSIVE SelectSeq2(_, _)
\* the list comprehension [f(x) for x in s if keep(x)] over index/value pairs
SelectSeq2(s, keep) ==
    IF s = <<>> THEN <<>>
    ELSE LET rest == SelectSeq2(Tail(s), keep)
         IN  IF Head(s) \in keep THEN <<Head(s)>> \o rest ELSE rest

(***************************************************************************)
(* Product records (search_service.py).  A fetched product mapping is an   *)
(* insertion-ordered mapping from product id to entity; it is modelled as  *)
(* the sequence of its entities, the key of an entity being its position.  *)
(* An entity is an attribute mapping ("dict") or any other value ("other").*)
(***************************************************************************)
EntityKinds == {"dict", "other"}

\* What _fetch_product_data hands to _process_term: None, a payload whose
\* entities.product is not a mapping, or a payload with a product mapping.
Payloads ==
    {[kind |-> "none", ents |-> <<>>], [kind |-> "nonmap", ents |-> <<>>]}
    \cup {[kind |-> "map", ents |-> e] : e \in SeqsUpTo(EntityKinds, MaxEntities)}

\* limit as the caller sends it: an int (a bool is one), a str with its
\* text, or a value of another type (None, a float, a list)
IntLimit(n) == [t |-> "int", v |-> n]
StrLimit(text) == [t |-> "str", v |-> text]
OtherLimit == [t |-> "other", v |-> 0]

LimitAll == StrLimit(<<"a", "l", "l">>)

\* the limits a task's run draws from: ints, the string "all", a numeric
\* string, a malformed string, a value of another type
Limits ==
    {IntLimit(n) : n \in {0, 1, 2}}
    \cup {StrLimit(<<"1">>), LimitAll, StrLimit(<<"x">>), OtherLimit}

\* the limits the batch runs draw from: one that cuts a product mapping and
\* one that does not
BatchLimits == {IntLimit(1), LimitAll}

\* the (limit, is_article_search) pairs of the batch runs; article mode never
\* reads limit, so one limit stands for all of them there
BatchModes ==
    {[limit |-> l, article |-> FALSE] : l \in BatchLimits}
    \cup {[limit |-> LimitAll, article |-> TRUE]}

\* _not_found echoing the term as the productId of the record
_not_found_term_as_id(term, message) ==
    [found |-> FALSE,
     searchTerm |-> term,
     productKey |-> 0,
     productId |-> term,
     retailerProductId |-> "none",
     name |-> <<"Article Not Found: ", term>>,
     brand |-> "none",
     available |-> "false",
     category |-> "none",
     imageUrl |-> "none",
     notFoundMessage |-> IF message = "none" THEN "default" ELSE message]

\* the not-found record: "none" is None, "false" is False, the name is
\* f"Article Not Found: {term}" (the text before the term, and the term), and
\* the default message is the template of lines 447-450
_not_found(term, message) ==
    [found |-> FALSE,
     searchTerm |-> term,
     productKey |-> 0,
     productId |-> "none",
     retailerProductId |-> "none",
     name |-> <<"Article Not Found: ", term>>,
     brand |-> "none",
     available |-> "false",
     category |-> "none",
     imageUrl |-> "none",
     notFoundMessage |-> IF message = "none" THEN "default" ELSE message]

\* the populated record of the entity under productKey: "entity" is what
\* product.get(...) gives for the field (<<"entity">> for the name), None
\* when the entity has no such key; the record has no notFoundMessage entry
\* ("absent")
_extract_product_info(productKey, term) ==
    [found |-> TRUE,
     searchTerm |-> term,
     productKey |-> productKey,
     productId |-> "entity",
     retailerProductId |-> "entity",
     name |-> <<"entity">>,
     brand |-> "entity",
     available |-> "entity",
     category |-> "entity",
     imageUrl |-> "entity",
     notFoundMessage |-> "absent"]

\* the characters of a limit string: letters of "all" in both cases, two
\* digits, the minus sign, a whitespace character and another letter
LimitChars == {"a", "A", "l", "L", "1", "5", "-", " ", "x"}

\* str.lower()
Lower(text) ==
    [i \in DOMAIN text |-> CASE text[i] = "A" -> "a"
                             [] text[i] = "L" -> "l"
                             [] OTHER -> text[i]]

RECURSIVE DigitsValue(_, _)
\* the number the digits spell, read left to right after the value acc
DigitsValue(cs, acc) ==
    IF cs = <<>> THEN acc
    ELSE DigitsValue(Tail(cs), 10 * acc + (IF Head(cs) = "5" THEN 5 ELSE 1))

\* int(text): surrounding whitespace is dropped, a sign may come first, and
\* the rest must be digits; anything else is a ValueError (ok = FALSE)
IntOfStr(text) ==
    LET body == Strip(text)
        negative == body # <<>> /\ Head(body) = "-"
        digits == IF negative THEN Tail(body) ELSE body
    IN  IF digits # <<>> /\ \A i \in DOMAIN digits : digits[i] \in {"1", "5"}
        THEN [ok |-> TRUE,
              v |-> IF negative THEN 0 - DigitsValue(digits, 0)
                    ELSE DigitsValue(digits, 0)]
        ELSE [ok |-> FALSE, v |-> 0]

\* _resolve_limit without the floor of 1
_resolve_limit_no_floor(limit) ==
    IF limit.t = "int" THEN Min(limit.v, LimitCap)
    ELSE IF limit.t = "str"
    THEN IF Lower(limit.v) = <<"a", "l", "l">> THEN LimitCap
         ELSE LET parsed == IntOfStr(limit.v)
              IN  IF parsed.ok THEN Min(parsed.v, LimitCap) ELSE LimitDefault
    ELSE LimitDefault

_resolve_limit(limit) ==
    IF limit.t = "int" THEN Max(1, Min(limit.v, LimitCap))
    ELSE IF limit.t = "str"
    THEN IF Lower(limit.v) = <<"a", "l", "l">> THEN LimitCap
         ELSE LET parsed == IntOfStr(limit.v)
              IN  IF parsed.ok THEN Max(1, Min(parsed.v, LimitCap)) ELSE LimitDefault
    ELSE LimitDefault

\* _process_term returning an empty list where the code returns [_not_found(term)]
_process_term_no_record(term, payload, limit, is_article_search) ==
    IF payload.kind # "map" \/ payload.ents = <<>>
    THEN [list |-> <<>>, count |-> 0]
    ELSE LET nids == Min(IF is_article_search THEN 1 ELSE _resolve_limit(limit),
                         Len(payload.ents))
             kept == SelectSeq2([i \in 1..nids |-> i],
                                {i \in 1..nids : payload.ents[i] = "dict"})
         IN  [list |-> [j \in 1..Len(kept) |-> _extract_product_info(kept[j], term)],
              count |-> Len(payload.ents)]

\* _process_term with article mode cut at the resolved limit, as general mode
_process_term_article_uses_limit(term, payload, limit, is_article_search) ==
    IF payload.kind # "map" \/ payload.ents = <<>>
    THEN [list |-> <<_not_found(term, "none")>>, count |-> 0]
    ELSE LET nids == Min(_resolve_limit(limit), Len(payload.ents))
             kept == SelectSeq2([i \in 1..nids |-> i],
                                {i \in 1..nids : payload.ents[i] = "dict"})
         IN  [list |-> IF kept # <<>>
                       THEN [j \in 1..Len(kept) |-> _extract_product_info(kept[j], term)]
                       ELSE <<_not_found(term, "none")>>,
              count |-> Len(payload.ents)]

\* the (product_list, term_count) pair a task returns
_process_term(term, payload, limit, is_article_search) ==
    IF payload.kind = "none"
    THEN [list |-> <<_not_found(term, "none")>>, count |-> 0]
    ELSE IF payload.kind # "map" \/ payload.ents = <<>>
    THEN [list |-> <<_not_found(term, "none")>>, count |-> 0]
    ELSE LET entities == payload.ents
             term_count == Len(entities)
             max_items == IF is_article_search THEN 1 ELSE _resolve_limit(limit)
             nids == Min(max_items, Len(entities))
             product_ids == [i \in 1..nids |-> i]
             kept == SelectSeq2(product_ids, {i \in 1..nids : entities[i] = "dict"})
             product_list == [j \in 1..Len(kept) |-> _extract_product_info(kept[j], term)]
         IN  [list |-> IF product_list # <<>> THEN product_list
                       ELSE <<_not_found(term, "none")>>,
              count |-> term_count]

\* the body of the as_completed loop with processed += 1 moved into the try
\* block, after future.result()
LoopBodyCountInTry(acc, term, future) ==
    IF future.raised
    THEN [results |-> Append(acc.results, _not_found(term, "retry")),
          total_found |-> acc.total_found,
          processed |-> acc.processed]
    ELSE [results |-> acc.results \o future.list,
          total_found |-> acc.total_found + future.count,
          processed |-> acc.processed + 1]

\* the body of the as_completed loop with the except branch dropping what the
\* tasks consumed before had contributed
LoopBodyRaiseAborts(acc, term, future) ==
    IF future.raised
    THEN [results |-> <<_not_found(term, "retry")>>,
          total_found |-> 0,
          processed |-> acc.processed + 1]
    ELSE [results |-> acc.results \o future.list,
          total_found |-> acc.total_found + future.count,
          processed |-> acc.processed + 1]

\* the body of the as_completed loop: what one finished future adds to
\* (results, total_found, processed)
LoopBody(acc, term, future) ==
    IF future.raised
    THEN [results |-> Append(acc.results, _not_found(term, "retry")),
          total_found |-> acc.total_found,
          processed |-> acc.processed + 1]
    ELSE [results |-> acc.results \o future.list,
          total_found |-> acc.total_found + future.count,
          processed |-> acc.processed + 1]

(***************************************************************************)
(* SearchService.process_chunk: one future per term in a pool of           *)
(* max(1, min(cfg.max_workers, len(terms))) workers, consumed by the       *)
(* as_completed loop.                                                      *)
(***************************************************************************)
NoReturn == [results |-> <<>>, total_found |-> -1, processed |-> -1]

\* a pool with one worker for every term, whatever cfg.max_workers is
PoolSizeOnePerTerm(n) == Max(1, n)

\* max_workers = max(1, min(self.cfg.max_workers, len(terms)))
PoolSize(n) == Max(1, Min(cfgWorkers, n))

QueuedFuture == [state |-> "queued", raised |-> FALSE, list |-> <<>>, count |-> 0]

BatchInit ==
    /\ bpc = "idle"
    /\ cfgWorkers \in 0..MaxWorkersCfg
    /\ bterms = <<>>
    /\ blimit = LimitAll
    /\ barticle = TRUE
    /\ fut = <<>>
    /\ yielded = {}
    /\ results = <<>>
    /\ total_found = 0
    /\ processed = 0
    /\ bret = NoReturn

\* the term lists of a call, up to renaming of the terms: a term is an opaque
\* string to process_chunk, so a list starting with "t2" behaves as its renaming
TermLists == {q \in SeqsUpTo(Terms, MaxTerms) : q = <<>> \/ q[1] = "t1"}

\* process_chunk is entered; an empty terms returns at once, otherwise every
\* term is submitted to the executor
process_chunk_call ==
    /\ bpc = "idle"
    /\ \E terms \in TermLists, mode \in BatchModes :
          /\ bterms' = terms
          /\ blimit' = mode.limit
          /\ barticle' = mode.article
          /\ IF terms = <<>>
             THEN /\ bpc' = "returned"
                  /\ bret' = [results |-> <<>>, total_found |-> 0, processed |-> 0]
                  /\ fut' = fut
             ELSE /\ bpc' = "loop"
                  /\ bret' = bret
                  /\ fut' = [i \in 1..Len(terms) |-> QueuedFuture]
    /\ UNCHANGED <<cfgWorkers, yielded, results, total_found, processed>>
    /\ UNCHANGED <<regionVars, sessVars, fetchVars, parseVars, extractVars,
                   totalVars, limitVars>>

Running == {i \in DOMAIN fut : fut[i].state = "running"}
Queued == {i \in DOMAIN fut : fut[i].state = "queued"}

\* a free worker takes the next queued work item (the executor's queue is FIFO)
StartTask ==
    /\ bpc = "loop"
    /\ Queued # {}
    /\ Cardinality(Running) < PoolSize(Len(bterms))
    /\ LET i == CHOOSE j \in Queued : \A k \in Queued : j <= k
       IN  fut' = [fut EXCEPT ![i].state = "running"]
    /\ UNCHANGED <<bpc, cfgWorkers, bterms, blimit, barticle, yielded,
                   results, total_found, processed, bret>>
    /\ UNCHANGED <<regionVars, sessVars, fetchVars, parseVars, extractVars,
                   totalVars, limitVars>>

\* a running _process_term ends: it returns for the payload its fetch obtained
TaskReturns(i) ==
    /\ bpc = "loop"
    /\ i \in Running
    /\ \E payload \in Payloads :
          LET r == _process_term(bterms[i], payload, blimit, barticle)
          IN  fut' = [fut EXCEPT ![i] = [state |-> "done", raised |-> FALSE,
                                         list |-> r.list, count |-> r.count]]
    /\ UNCHANGED <<bpc, cfgWorkers, bterms, blimit, barticle, yielded,
                   results, total_found, processed, bret>>
    /\ UNCHANGED <<regionVars, sessVars, fetchVars, parseVars, extractVars,
                   totalVars, limitVars>>

\* a running _process_term ends by raising an exception
TaskRaises(i) ==
    /\ bpc = "loop"
    /\ i \in Running
    /\ fut' = [fut EXCEPT ![i] = [state |-> "done", raised |-> TRUE,
                                  list |-> <<>>, count |-> 0]]
    /\ UNCHANGED <<bpc, cfgWorkers, bterms, blimit, barticle, yielded,
                   results, total_found, processed, bret>>
    /\ UNCHANGED <<regionVars, sessVars, fetchVars, parseVars, extractVars,
                   totalVars, limitVars>>

\* one iteration of "for future in as_completed(futures)"
ConsumeCompleted(i) ==
    /\ bpc = "loop"
    /\ i \in DOMAIN fut
    /\ fut[i].state = "done"
    /\ i \notin yielded
    /\ yielded' = yielded \cup {i}
    /\ LET acc == LoopBody([results |-> results, total_found |-> total_found,
                            processed |-> processed], bterms[i], fut[i])
       IN  /\ results' = acc.results
           /\ total_found' = acc.total_found
           /\ processed' = acc.processed
    /\ UNCHANGED <<bpc, cfgWorkers, bterms, blimit, barticle, fut, bret>>
    /\ UNCHANGED <<regionVars, sessVars, fetchVars, parseVars, extractVars,
                   totalVars, limitVars>>

\* as_completed is exhausted, the executor is shut down, the triple is returned
process_chunk_return ==
    /\ bpc = "loop"
    /\ yielded = DOMAIN fut
    /\ bpc' = "returned"
    /\ bret' = [results |-> results, total_found |-> total_found,
                processed |-> processed]
    /\ UNCHANGED <<cfgWorkers, bterms, blimit, barticle, fut, yielded,
                   results, total_found, processed>>
    /\ UNCHANGED <<regionVars, sessVars, fetchVars, parseVars, extractVars,
                   totalVars, limitVars>>

BatchNext ==
    \/ process_chunk_call
    \/ StartTask
    \/ \E i \in 1..MaxTerms : TaskReturns(i)
    \/ \E i \in 1..MaxTerms : TaskRaises(i)
    \/ \E i \in 1..MaxTerms : ConsumeCompleted(i)
    \/ process_chunk_return

BatchIdleRest ==
    /\ bpc = "idle" /\ cfgWorkers = 0 /\ bterms = <<>>
    /\ blimit = <<>> /\ barticle = TRUE /\ fut = <<>>
    /\ yielded = {} /\ results = <<>> /\ total_found = 0 /\ processed = 0
    /\ bret = <<>>

(***************************************************************************)
(* Region resolution (search_service.py, get_region_info and helpers).     *)
(*                                                                         *)
(* Text is a sequence of pieces.  A Python value is [t, s]: None, a str    *)
(* with its text s, or an int with its decimal text s.                     *)
(***************************************************************************)
Chars == {"2", "a", "R", "-"}
HexChars == {"2", "a", "-"}      \* the class [0-9a-fA-F-] within Chars

None == [t |-> "none", s |-> <<>>]
PyStr(s) == [t |-> "str", s |-> s]
PyInt(s) == [t |-> "int", s |-> s]

\* Python truthiness of a value ("if region_id", "not nickname"); every
\* number the model's digits can spell is non-zero
Truthy(v) == (v.t = "str" /\ v.s # <<>>) \/ v.t = "int"

\* JSON numbers the model's alphabet can spell
IsJsonNumber(cs) == cs \in {<<"2">>, <<"2", "2">>, <<"-", "2">>}

\* f"Region {region_id}"
RegionNickname(region_id) == PyStr(<<"Region ">> \o region_id.s)

NicknameTexts == {<<>>, <<"Foo">>}

\* A response body.  regionId, nickname and postalCode are the key-value
\* members as they stand in the text; dcg, delivery and addr are the shapes
\* of defaultCheckoutGroup, .delivery and .addressDetails; valid says
\* whether the text parses as JSON and top whether it parses to a mapping.
RegionIdMembers ==
    {[form |-> "absent", chars |-> <<>>], [form |-> "null", chars |-> <<>>]}
    \cup {[form |-> f, chars |-> cs] : f \in {"quoted", "bare"},
                                       cs \in SeqsUpTo(Chars, MaxIdLen)}

StringMembers(texts) ==
    {[form |-> "absent", chars |-> <<>>], [form |-> "null", chars |-> <<>>]}
    \cup {[form |-> "quoted", chars |-> cs] : cs \in texts}

Shapes == {"absent", "nonmap", "map"}

Bodies ==
    {b \in [valid : BOOLEAN, top : {"object", "other"},
            regionId : RegionIdMembers,
            dcg : Shapes, delivery : Shapes, addr : Shapes,
            nickname : StringMembers(NicknameTexts),
            postalCode : StringMembers({<<"P1">>})] :
        \* a bare token that is no number, or an empty bare value, is not JSON
        /\ (b.regionId.form = "bare" /\ ~IsJsonNumber(b.regionId.chars)) => ~b.valid
        \* nested shapes exist only inside a mapping
        /\ b.dcg # "map" => b.delivery = "absent"
        /\ b.delivery # "map" => b.addr = "absent"}

Upstreams ==
    {[kind |-> "timeout", status |-> 0], [kind |-> "exception", status |-> 0]}
    \cup {[kind |-> "response", status |-> st] : st \in {200, 500}}

\* the value json gives a member of the text
JsonValue(m) ==
    CASE m.form = "quoted" -> PyStr(m.chars)
      [] m.form = "bare" -> PyInt(m.chars)
      [] OTHER -> None

RegionInfo(region_id, nickname, display, postal) ==
    [raised |-> FALSE, regionId |-> region_id, nickname |-> nickname,
     displayAddress |-> display, postalCode |-> postal]

\* the call ends in an uncaught exception instead of a RegionInfo
RegionRaised ==
    [raised |-> TRUE, regionId |-> None, nickname |-> None,
     displayAddress |-> None, postalCode |-> None]

_region_error(nickname, message) ==
    RegionInfo(None, PyStr(<<nickname>>), PyStr(<<message>>), None)

RECURSIVE HexRun(_)
\* the longest prefix of cs made of characters of [0-9a-fA-F-]
HexRun(cs) ==
    IF cs = <<>> \/ Head(cs) \notin HexChars THEN <<>>
    ELSE <<Head(cs)>> \o HexRun(Tail(cs))

\* the regionId pattern without its optional opening quote: bare values only
FirstRegionIdBareOnly(body) ==
    IF body.regionId.form = "bare" /\ HexRun(body.regionId.chars) # <<>>
    THEN PyStr(HexRun(body.regionId.chars))
    ELSE None

\* first(r'"regionId"\s*:\s*"?([0-9a-fA-F-]+)"?'): group 1, or None
FirstRegionId(body) ==
    IF body.regionId.form \in {"quoted", "bare"} /\ HexRun(body.regionId.chars) # <<>>
    THEN PyStr(HexRun(body.regionId.chars))
    ELSE None

\* first(r'"<key>"\s*:\s*"([^"\\]*(?:\\.[^"\\]*)*)"'): group 1, or None
FirstQuoted(member) ==
    IF member.form = "quoted" THEN PyStr(member.chars) ELSE None

_fallback_region(body) ==
    LET region_id == FirstRegionId(body)
        found == FirstQuoted(body.nickname)
        nickname == IF Truthy(region_id) /\ ~Truthy(found)
                    THEN RegionNickname(region_id) ELSE found
        postal == FirstQuoted(body.postalCode)
    IN  IF Truthy(region_id)
        THEN RegionInfo(region_id, nickname, None, postal)
        ELSE _region_error("Unknown", "Could not determine region")

\* _extract_region without "if region_id and not nickname: nickname = ..."
_extract_region_no_synthesis(body) ==
    IF ~body.valid \/ body.top # "object"
    THEN RegionInfo(None, None, None, None)
    ELSE IF body.dcg = "nonmap" \/ body.delivery = "nonmap"
    THEN RegionRaised
    ELSE RegionInfo(JsonValue(body.regionId),
                    IF body.addr = "map" THEN JsonValue(body.nickname) ELSE None,
                    None,
                    IF body.addr = "map" THEN JsonValue(body.postalCode) ELSE None)

\* payload is response.json(): None after a ValueError
_extract_region(body) ==
    IF ~body.valid \/ body.top # "object"
    THEN RegionInfo(None, None, None, None)
    ELSE IF body.dcg = "nonmap" \/ body.delivery = "nonmap"
    THEN RegionRaised      \* .get on a value that is no mapping: AttributeError
    ELSE LET region_id == JsonValue(body.regionId)
             isdict == body.addr # "nonmap"
             inaddr == body.addr = "map"
             got == IF inaddr THEN JsonValue(body.nickname) ELSE None
             postal == IF inaddr THEN JsonValue(body.postalCode) ELSE None
             nickname == IF Truthy(region_id) /\ ~Truthy(got)
                         THEN RegionNickname(region_id) ELSE got
         IN  RegionInfo(region_id, nickname, None, postal)

get_region_info(up, body) ==
    CASE up.kind = "timeout" -> _region_error("Timeout", "API request timed out")
      [] up.kind = "exception" -> _region_error("Error", "exc")
      [] up.status # 200 -> _fallback_region(body)
      [] OTHER ->
           LET region == _extract_region(body)
           IN  IF region.raised THEN region
               ELSE IF Truthy(region.regionId) THEN region
               ELSE _fallback_region(body)

NoBody ==
    [valid |-> FALSE, top |-> "other", regionId |-> [form |-> "absent", chars |-> <<>>],
     dcg |-> "absent", delivery |-> "absent", addr |-> "absent",
     nickname |-> [form |-> "absent", chars |-> <<>>],
     postalCode |-> [form |-> "absent", chars |-> <<>>]]

RegionInit ==
    /\ rpc = "idle"
    /\ rup = [kind |-> "timeout", status |-> 0]
    /\ rbody = NoBody
    /\ rresult = RegionRaised

get_region_info_call ==
    /\ rpc = "idle"
    /\ \E up \in Upstreams :
         \E body \in IF up.kind = "response" THEN Bodies ELSE {NoBody} :
            /\ rup' = up
            /\ rbody' = body
            /\ rresult' = get_region_info(up, body)
    /\ rpc' = "returned"
    /\ UNCHANGED <<batchVars, sessVars, fetchVars, parseVars, extractVars,
                   totalVars, limitVars>>

RegionNext == get_region_info_call

RegionIdleRest ==
    /\ rpc = "idle" /\ rup = <<>> /\ rbody = <<>> /\ rresult = <<>>

(***************************************************************************)
(* process_chunk as the function of its terms and of what each term's task *)
(* did: the value the as_completed loop has built when it ends.  The       *)
(* handlers below call it between two database statements.                 *)
(***************************************************************************)
\* What a term's task did: it returned, for the payload its fetch obtained;
\* or it raised, in the fetch (no payload) or in _extract_product_info over
\* an entity of the product mapping fetched (the first entity is extracted
\* in both modes).
TaskOutcomes ==
    {[raised |-> TRUE, payload |-> [kind |-> "none", ents |-> <<>>]]}
    \cup {[raised |-> TRUE, payload |-> p] :
             p \in {q \in Payloads : q.kind = "map" /\ q.ents # <<>>
                                      /\ q.ents[1] = "dict"}}
    \cup {[raised |-> FALSE, payload |-> p] : p \in Payloads}

\* the outcomes, limits and term lists the handlers' runs draw from: one of
\* each kind that changes what a chunk counts
ChunkOutcomes ==
    {[raised |-> TRUE, payload |-> [kind |-> "none", ents |-> <<>>]],
     [raised |-> FALSE, payload |-> [kind |-> "none", ents |-> <<>>]],
     [raised |-> FALSE, payload |-> [kind |-> "map", ents |-> <<"dict">>]],
     [raised |-> FALSE, payload |-> [kind |-> "map", ents |-> <<"dict", "dict">>]]}

ChunkLimits == {LimitAll, IntLimit(1)}

ChunkTermLists ==
    {[i \in 1..n |-> IF i % 2 = 1 THEN "t1" ELSE "t2"] : n \in 0..MaxChunkTerms}

RECURSIVE CompletedLoop(_, _, _, _, _)
CompletedLoop(terms, outcomes, limit, is_article_search, i) ==
    IF i = 0 THEN [results |-> <<>>, total_found |-> 0, processed |-> 0]
    ELSE LET acc == CompletedLoop(terms, outcomes, limit, is_article_search, i - 1)
             r == _process_term(terms[i], outcomes[i].payload, limit, is_article_search)
             future == IF outcomes[i].raised
                       THEN [raised |-> TRUE, list |-> <<>>, count |-> 0]
                       ELSE [raised |-> FALSE, list |-> r.list, count |-> r.count]
         IN  LoopBody(acc, terms[i], future)

process_chunk(terms, outcomes, limit, search_type) ==
    IF terms = <<>> THEN [results |-> <<>>, total_found |-> 0, processed |-> 0]
    ELSE CompletedLoop(terms, outcomes, limit, search_type = "article", Len(terms))

(***************************************************************************)
(* parse_terms over the fragments of the raw input, in input order.        *)
(***************************************************************************)
RECURSIVE parse_terms_drop_repeats(_)
\* parse_terms with a repeated fragment dropped instead of recorded
parse_terms_drop_repeats(parts) ==
    IF parts = <<>> THEN [terms |-> <<>>, duplicates |-> <<>>, duplicateCount |-> 0]
    ELSE LET before == parse_terms_drop_repeats(SubSeq(parts, 1, Len(parts) - 1))
             normalized == parts[Len(parts)]
             seen == {before.terms[i] : i \in DOMAIN before.terms}
         IN  IF normalized \notin seen
             THEN [before EXCEPT !.terms = Append(before.terms, normalized)]
             ELSE before

RECURSIVE parse_terms(_)
parse_terms(parts) ==
    IF parts = <<>> THEN [terms |-> <<>>, duplicates |-> <<>>, duplicateCount |-> 0]
    ELSE LET before == parse_terms(SubSeq(parts, 1, Len(parts) - 1))
             normalized == parts[Len(parts)]
             seen == {before.terms[i] : i \in DOMAIN before.terms}
         IN  IF normalized \notin seen
             THEN [terms |-> Append(before.terms, normalized),
                   duplicates |-> before.duplicates,
                   duplicateCount |-> Len(before.duplicates)]
             ELSE [terms |-> before.terms,
                   duplicates |-> Append(before.duplicates, normalized),
                   duplicateCount |-> Len(before.duplicates) + 1]

(***************************************************************************)
(* The store (db.py) and the handlers (routes.py).                         *)
(***************************************************************************)
SessionIds == 1..MaxSessions
Reqs == 1..MaxSubmissions

NoRow == [status |-> "none", total_terms |-> 0, processed_terms |-> 0,
          total_products |-> 0, region_id |-> None]

IdleReq == [pc |-> "idle", sid |-> 0, session |-> NoRow, terms |-> <<>>,
            region_id |-> None, processed |-> 0, nproducts |-> 0]

\* a response: the handler, the HTTP status code, and of the JSON body the
\* "status" and "error" entries
Response(op, code, status) ==
    [op |-> op, code |-> code, status |-> status, error |-> "none"]

ErrorResponse(op, code, error) ==
    [op |-> op, code |-> code, status |-> "none", error |-> error]

\* fetch_session with a fresh row, instead of None, for an id without a row
fetch_session_missing_as_fresh(table, session_id) ==
    IF session_id \in DOMAIN table THEN table[session_id]
    ELSE [status |-> "active", total_terms |-> 0, processed_terms |-> 0,
          total_products |-> 0, region_id |-> None]

\* SELECT * FROM sessions WHERE id = ?: the row, or None (NoRow)
fetch_session(table, session_id) ==
    IF session_id \in DOMAIN table THEN table[session_id] ELSE NoRow

\* the payload checks of a chunk submission with the terms check left out
ChunkPayloadErrorSidOnly(has_sid, search_terms) ==
    IF ~has_sid THEN "globalSid is required" ELSE "none"

\* the payload checks of a chunk submission: the message of the ValueError
\* raised, or "none"
ChunkPayloadError(has_sid, search_terms) ==
    IF ~has_sid THEN "globalSid is required"
    ELSE IF search_terms = <<>> THEN "terms list is required"
    ELSE "none"

\* INSERT OR REPLACE INTO sessions ... VALUES (?, 'active', ?, 0, 0, ?, ?);
\* the column region_id TEXT holds an int as its decimal text
insert_session(table, session_id, total_terms, region_id) ==
    [id \in DOMAIN table \cup {session_id} |->
        IF id = session_id
        THEN [status |-> "active", total_terms |-> total_terms,
              processed_terms |-> 0, total_products |-> 0,
              region_id |-> IF region_id.t = "int" THEN PyStr(region_id.s)
                            ELSE region_id]
        ELSE table[id]]

\* UPDATE sessions SET processed_terms = ?, total_products = ?, status = ? WHERE id = ?
update_session_progress(table, session_id, processed_terms, total_products, status) ==
    [id \in DOMAIN table |->
        IF id = session_id
        THEN [table[id] EXCEPT !.processed_terms = processed_terms,
                               !.total_products = total_products,
                               !.status = status]
        ELSE table[id]]

\* store_products inserting the rows of the found records only
store_products_found_only(rows, records) ==
    rows + Cardinality({j \in DOMAIN records : records[j].found})

\* INSERT INTO products ...: one row for every record of the list, whatever
\* the table holds already; rows is the number of rows of the session
store_products(rows, records) == rows + Len(records)

\* the rows of a session leave both tables
delete_session(table, session_id) ==
    [id \in DOMAIN table \ {session_id} |-> table[id]]

\* the status rule without its total_terms > 0 conjunct
ChunkStatusNoZeroGuard(new_processed, total_terms) ==
    IF new_processed >= total_terms THEN "completed" ELSE "processing"

\* status = "completed" if new_processed >= total_terms and total_terms > 0 else "processing"
ChunkStatus(new_processed, total_terms) ==
    IF new_processed >= total_terms /\ total_terms > 0 THEN "completed" ELSE "processing"

\* the region check of a session start accepting every region_id
RegionErrorNever(region_id) == "none"

\* if not region_id: raise ValueError(...): the message, or "none"
RegionError(region_id) ==
    IF ~Truthy(region_id) THEN "Unable to resolve region" ELSE "none"

\* the raw searchTerm of a session start: blank, or its fragments (none for ",")
RawInputs ==
    {[blank |-> TRUE, parts |-> <<>>]}
    \cup {[blank |-> FALSE, parts |-> ps] : ps \in SeqsUpTo(Terms, MaxRawTokens)}

ResolvedBody ==
    [NoBody EXCEPT !.valid = TRUE, !.top = "object",
                   !.regionId = [form |-> "quoted", chars |-> <<"a", "2">>]]

\* what the cart endpoint may do at a session start
StartRegionCases ==
    {[up |-> [kind |-> "timeout", status |-> 0], body |-> NoBody],
     [up |-> [kind |-> "response", status |-> 200], body |-> ResolvedBody],
     [up |-> [kind |-> "response", status |-> 200],
      body |-> [ResolvedBody EXCEPT !.regionId = [form |-> "bare", chars |-> <<"2">>]]],
     [up |-> [kind |-> "response", status |-> 200],
      body |-> [ResolvedBody EXCEPT !.dcg = "nonmap"]],
     [up |-> [kind |-> "response", status |-> 500], body |-> ResolvedBody],
     [up |-> [kind |-> "response", status |-> 500],
      body |-> [ResolvedBody EXCEPT !.regionId.chars = <<"R", "2">>]]}

SessInit ==
    /\ sessions = <<>>
    /\ products = [s \in SessionIds |-> 0]
    /\ req = [r \in Reqs |-> IdleReq]
    /\ created = 0
    /\ accepted = 0
    /\ doneProcessed = [s \in SessionIds |-> 0]
    /\ resp = Response("none", 0, "none")
    /\ sreq = [pc |-> "idle", region_id |-> None]

\* POST /sessions, up to the return of get_region_info: the checks of the
\* payload and the region lookup.  One start is in progress at a time.
StartResolve ==
    /\ sreq.pc = "idle"
    /\ \E has_sid \in BOOLEAN, blank \in BOOLEAN :
           IF ~has_sid
           THEN /\ resp' = ErrorResponse("start", 400, "globalSid is required")
                /\ UNCHANGED sreq
           ELSE IF blank
           THEN /\ resp' = ErrorResponse("start", 400, "searchTerm is required")
                /\ UNCHANGED sreq
           ELSE \E rc \in StartRegionCases :
               LET region_info == get_region_info(rc.up, rc.body)
               IN  IF region_info.raised
                   THEN /\ resp' = ErrorResponse("start", 500, "Internal server error")
                        /\ UNCHANGED sreq
                   ELSE /\ sreq' = [pc |-> "resolved",
                                    region_id |-> region_info.regionId]
                        /\ UNCHANGED resp
    /\ UNCHANGED <<sessions, products, req, created, accepted, doneProcessed>>
    /\ UNCHANGED <<batchVars, regionVars, fetchVars, parseVars, extractVars,
                   totalVars, limitVars>>

\* POST /sessions, from the region check on: parse_terms, insert_session
\* and the response.  The raw searchTerm is a field of the payload that only
\* parse_terms reads.
StartCreate ==
    /\ sreq.pc = "resolved"
    /\ LET error == RegionError(sreq.region_id)
       IN  IF error # "none"
           THEN /\ resp' = ErrorResponse("start", 400, error)
                /\ UNCHANGED <<sessions, created>>
           ELSE \E raw \in {x \in RawInputs : ~x.blank} :
               LET parsed == parse_terms(raw.parts)
                   session_id == created + 1
               IN  /\ created < MaxSessions
                   /\ sessions' = insert_session(sessions, session_id,
                                      Len(parsed.terms), sreq.region_id)
                   /\ created' = session_id
                   /\ resp' = Response("start", 200,
                                  IF parsed.terms # <<>> THEN "processing"
                                  ELSE "pending")
    /\ sreq' = [pc |-> "idle", region_id |-> None]
    /\ UNCHANGED <<products, req, accepted, doneProcessed>>
    /\ UNCHANGED <<batchVars, regionVars, fetchVars, parseVars, extractVars,
                   totalVars, limitVars>>

\* POST /sessions/<id>/chunks, up to its validation: fetch_session and the
\* checks of the payload.  The slots of req are interchangeable; the
\* submission takes the lowest idle one.
ChunkLoad(r) ==
    /\ req[r].pc = "idle"
    /\ \A q \in Reqs : q < r => req[q].pc # "idle"
    /\ \E session_id \in SessionIds, has_sid \in BOOLEAN,
          search_terms \in ChunkTermLists :
         LET session == fetch_session(sessions, session_id)
             error == ChunkPayloadError(has_sid, search_terms)
         IN
         IF session = NoRow
         THEN /\ resp' = ErrorResponse("chunk", 404, "Session not found")
              /\ UNCHANGED <<sessions, products, req, created, accepted,
                             doneProcessed>>
         ELSE IF error # "none"
         THEN /\ resp' = ErrorResponse("chunk", 400, error)
              /\ UNCHANGED <<sessions, products, req, created, accepted,
                             doneProcessed>>
         ELSE /\ accepted < MaxSubmissions
              /\ req' = [req EXCEPT ![r] = [pc |-> "loaded", sid |-> session_id,
                                            session |-> session,
                                            terms |-> search_terms,
                                            region_id |-> None,
                                            processed |-> 0, nproducts |-> 0]]
              /\ accepted' = accepted + 1
              /\ UNCHANGED <<sessions, products, created, doneProcessed, resp>>
    /\ UNCHANGED sreq
    /\ UNCHANGED <<batchVars, regionVars, fetchVars, parseVars, extractVars,
                   totalVars, limitVars>>

\* the batch over the chunk's terms, called with the region_id of the row
\* that fetch_session read, then store_products.  limit and searchType are
\* fields of the payload that only the batch reads.
ChunkStore(r) ==
    /\ req[r].pc = "loaded"
    /\ \E limit \in ChunkLimits, search_type \in {"article", "general"},
          outcomes \in [1..Len(req[r].terms) -> ChunkOutcomes] :
         LET out == process_chunk(req[r].terms, outcomes, limit, search_type)
         IN  /\ products' = [products EXCEPT
                              ![req[r].sid] = store_products(@, out.results)]
             /\ req' = [req EXCEPT ![r].pc = "stored",
                                   ![r].terms = <<>>,
                                   ![r].region_id = req[r].session.region_id,
                                   ![r].processed = out.processed,
                                   ![r].nproducts = Len(out.results)]
    /\ UNCHANGED <<sessions, created, accepted, doneProcessed, resp, sreq>>
    /\ UNCHANGED <<batchVars, regionVars, fetchVars, parseVars, extractVars,
                   totalVars, limitVars>>

\* the counters are advanced from the row fetch_session read, and the
\* response is sent
ChunkUpdate(r) ==
    /\ req[r].pc = "stored"
    /\ LET session == req[r].session
           new_processed == session.processed_terms + req[r].processed
           new_total_products == session.total_products + req[r].nproducts
           status == ChunkStatus(new_processed, session.total_terms)
       IN  /\ sessions' = update_session_progress(sessions, req[r].sid, new_processed,
                                                  new_total_products, status)
           /\ resp' = Response("chunk", 200, status)
    /\ doneProcessed' = [doneProcessed EXCEPT ![req[r].sid] = @ + req[r].processed]
    /\ req' = [req EXCEPT ![r] = IdleReq]
    /\ UNCHANGED <<products, created, accepted, sreq>>
    /\ UNCHANGED <<batchVars, regionVars, fetchVars, parseVars, extractVars,
                   totalVars, limitVars>>

\* POST /cleanup-session
cleanup_session ==
    /\ \E session_id \in SessionIds :
           /\ session_id \in DOMAIN sessions
           /\ sessions' = delete_session(sessions, session_id)
           /\ products' = [products EXCEPT ![session_id] = 0]
           /\ resp' = Response("cleanup", 200, "ok")
           /\ UNCHANGED <<req, created, accepted, doneProcessed, sreq>>
    /\ UNCHANGED <<batchVars, regionVars, fetchVars, parseVars, extractVars,
                   totalVars, limitVars>>

SessNext ==
    \/ StartResolve
    \/ StartCreate
    \/ \E r \in Reqs : ChunkLoad(r)
    \/ \E r \in Reqs : ChunkStore(r)
    \/ \E r \in Reqs : ChunkUpdate(r)
    \/ cleanup_session

SessIdleRest ==
    /\ sessions = <<>> /\ products = <<>> /\ req = <<>> /\ created = 0
    /\ accepted = 0 /\ doneProcessed = <<>> /\ resp = <<>> /\ sreq = <<>>

(***************************************************************************)
(* SearchService._fetch_product_data inside _process_term: Tier 1 is the   *)
(* search request, Tier 2 the product page lookup                          *)
(* (_product_payload_from_page), Tier 3 the regex salvage of the Tier 1    *)
(* body (_fallback_product_payload).  A term is the sequence of its        *)
(* characters: "a" stands for a character of [A-Za-z0-9_-], "*" for any    *)
(* other character but the newline, "LF" for the newline.                  *)
(***************************************************************************)
TermChars == {"a", "*", "LF"}
IdChars == {"a"}
FetchTerms == SeqsUpTo(TermChars, MaxTermLen)

AllIdChars(cs) == \A i \in DOMAIN cs : cs[i] \in IdChars

\* re.match(r"^[A-Za-z0-9_-]{3,}$", term): "$" matches at the end of the
\* string and also just before a newline that ends the string
IdShapeMatch(term) ==
    \/ Len(term) >= 3 /\ AllIdChars(term)
    \/ /\ Len(term) >= 4
       /\ term[Len(term)] = "LF"
       /\ AllIdChars(SubSeq(term, 1, Len(term) - 1))

NonePayload == [kind |-> "none", ents |-> <<>>]
EmptyPayload == [kind |-> "map", ents |-> <<>>]

\* the {...} snippets of an unparseable body that hold a "productId" pair:
\* one that json.loads rejects or whose productId is falsy ("bad"), or one
\* that parses with the product id p1 or p2
SnippetKinds == {"bad", "p1", "p2"}

\* what the search endpoint may do: no response, or a response with a
\* status and a body; of the body, whether it holds a product marker,
\* whether it parses as JSON and to what value, and its snippets
Tier1Outcomes ==
    LET t1(kind, status, marker, parses, json, snippets) ==
            [kind |-> kind, status |-> status, marker |-> marker,
             parses |-> parses, json |-> json, snippets |-> snippets]
    IN  {t1(k, 0, FALSE, FALSE, NonePayload, <<>>) : k \in {"timeout", "error"}}
        \cup {t1("response", 404, FALSE, FALSE, NonePayload, <<>>)}
        \cup {t1("response", 200, FALSE, p, EmptyPayload, <<>>) : p \in BOOLEAN}
        \cup {t1("response", 200, TRUE, TRUE, j, <<>>) : j \in Payloads}
        \cup {t1("response", 200, TRUE, FALSE, NonePayload, sn) :
                 sn \in SeqsUpTo(SnippetKinds, MaxEntities)}

NoTier1 == [kind |-> "timeout", status |-> 0, marker |-> FALSE, parses |-> FALSE,
            json |-> NonePayload, snippets |-> <<>>]

\* what the product page request may do: no response, a non-200 status, a
\* page without the state script, a state that is not JSON, a state whose
\* "entities" is not a mapping (the chained .get raises), a state whose
\* entities.product is not a mapping, or a state with a product mapping
Tier2Outcomes ==
    {[kind |-> k, ents |-> <<>>] :
        k \in {"timeout", "error", "status", "nomatch", "badjson", "raise", "nonmap"}}
    \cup {[kind |-> "map", ents |-> e] : e \in SeqsUpTo(EntityKinds, MaxEntities)}

RECURSIVE _fallback_products(_)
\* the keys of products after the finditer loop, in insertion order
_fallback_products(snippets) ==
    IF snippets = <<>> THEN <<>>
    ELSE LET before == _fallback_products(SubSeq(snippets, 1, Len(snippets) - 1))
             product_id == snippets[Len(snippets)]
         IN  IF product_id = "bad" \/ \E i \in DOMAIN before : before[i] = product_id
             THEN before
             ELSE Append(before, product_id)

_fallback_product_payload(snippets) ==
    LET product_keys == _fallback_products(snippets)
    IN  IF product_keys = <<>> THEN NonePayload
        ELSE [kind |-> "map", ents |-> [i \in DOMAIN product_keys |-> "dict"]]

\* _product_payload_from_page once the page request has ended
_product_payload_from_page(page) ==
    IF page.kind = "map" THEN [kind |-> "map", ents |-> page.ents] ELSE NonePayload

\* _fetch_product_data with a timeout of the search request falling through
\* to the page lookup
_fetch_product_data_timeout_to_page(term, t1) ==
    IF t1.kind = "error"
    THEN [next |-> "fetched", tier3 |-> FALSE, payload |-> NonePayload]
    ELSE IF t1.status # 200
    THEN IF IdShapeMatch(term)
         THEN [next |-> "tier2", tier3 |-> FALSE, payload |-> NonePayload]
         ELSE [next |-> "fetched", tier3 |-> FALSE, payload |-> NonePayload]
    ELSE IF ~t1.marker
    THEN [next |-> "fetched", tier3 |-> FALSE, payload |-> EmptyPayload]
    ELSE IF t1.parses
    THEN [next |-> "fetched", tier3 |-> FALSE, payload |-> t1.json]
    ELSE [next |-> "fetched", tier3 |-> TRUE,
          payload |-> _fallback_product_payload(t1.snippets)]

\* _fetch_product_data with a markerless 200 body treated as a failed fetch
_fetch_product_data_markerless_none(term, t1) ==
    IF t1.kind \in {"timeout", "error"}
    THEN [next |-> "fetched", tier3 |-> FALSE, payload |-> NonePayload]
    ELSE IF t1.status # 200
    THEN IF IdShapeMatch(term)
         THEN [next |-> "tier2", tier3 |-> FALSE, payload |-> NonePayload]
         ELSE [next |-> "fetched", tier3 |-> FALSE, payload |-> NonePayload]
    ELSE IF ~t1.marker
    THEN [next |-> "fetched", tier3 |-> FALSE, payload |-> NonePayload]
    ELSE IF t1.parses
    THEN [next |-> "fetched", tier3 |-> FALSE, payload |-> t1.json]
    ELSE [next |-> "fetched", tier3 |-> TRUE,
          payload |-> _fallback_product_payload(t1.snippets)]

\* _fetch_product_data once the search request has ended: the payload it
\* returns, whether the regex salvage ran, or that the page request is next
_fetch_product_data(term, t1) ==
    IF t1.kind \in {"timeout", "error"}
    THEN [next |-> "fetched", tier3 |-> FALSE, payload |-> NonePayload]
    ELSE IF t1.status # 200
    THEN IF IdShapeMatch(term)
         THEN [next |-> "tier2", tier3 |-> FALSE, payload |-> NonePayload]
         ELSE [next |-> "fetched", tier3 |-> FALSE, payload |-> NonePayload]
    ELSE IF ~t1.marker
    THEN [next |-> "fetched", tier3 |-> FALSE, payload |-> EmptyPayload]
    ELSE IF t1.parses
    THEN [next |-> "fetched", tier3 |-> FALSE, payload |-> t1.json]
    ELSE [next |-> "fetched", tier3 |-> TRUE,
          payload |-> _fallback_product_payload(t1.snippets)]

NoOut == [list |-> <<>>, count |-> 0]

FetchInit ==
    /\ fpc = "idle"
    /\ fterm = <<>>
    /\ ftier1 = NoTier1
    /\ fattempts = <<>>
    /\ fpayload = NonePayload
    /\ flimit = LimitAll
    /\ farticle = TRUE
    /\ fout = NoOut

\* _process_term is entered and _fetch_product_data sends the search request
process_term_call ==
    /\ fpc = "idle"
    /\ \E term \in FetchTerms, limit \in Limits, article \in BOOLEAN :
          /\ fterm' = term
          /\ flimit' = limit
          /\ farticle' = article
    /\ fpc' = "tier1"
    /\ fattempts' = <<1>>
    /\ UNCHANGED <<ftier1, fpayload, fout>>
    /\ UNCHANGED <<batchVars, regionVars, sessVars, parseVars, extractVars,
                   totalVars, limitVars>>

\* the search request ends; _fetch_product_data returns, or goes on to the
\* page request of _product_payload_from_page
SearchRequestEnds ==
    /\ fpc = "tier1"
    /\ \E t1 \in Tier1Outcomes :
          LET r == _fetch_product_data(fterm, t1)
          IN  /\ ftier1' = t1
              /\ fpc' = r.next
              /\ fpayload' = r.payload
              /\ fattempts' = IF r.next = "tier2" THEN Append(fattempts, 2)
                              ELSE IF r.tier3 THEN Append(fattempts, 3)
                              ELSE fattempts
    /\ UNCHANGED <<fterm, flimit, farticle, fout>>
    /\ UNCHANGED <<batchVars, regionVars, sessVars, parseVars, extractVars,
                   totalVars, limitVars>>

\* the page request ends
PageRequestEnds ==
    /\ fpc = "tier2"
    /\ \E page \in Tier2Outcomes :
          IF page.kind = "raise"
          THEN fpc' = "raised" /\ fpayload' = fpayload
          ELSE fpc' = "fetched" /\ fpayload' = _product_payload_from_page(page)
    /\ UNCHANGED <<fterm, ftier1, fattempts, flimit, farticle, fout>>
    /\ UNCHANGED <<batchVars, regionVars, sessVars, parseVars, extractVars,
                   totalVars, limitVars>>

\* the rest of _process_term over the fetched payload
process_term_return ==
    /\ fpc = "fetched"
    /\ fout' = _process_term(fterm, fpayload, flimit, farticle)
    /\ fpc' = "returned"
    /\ UNCHANGED <<fterm, ftier1, fattempts, fpayload, flimit, farticle>>
    /\ UNCHANGED <<batchVars, regionVars, sessVars, parseVars, extractVars,
                   totalVars, limitVars>>

FetchNext ==
    \/ process_term_call
    \/ SearchRequestEnds
    \/ PageRequestEnds
    \/ process_term_return

FetchIdleRest ==
    /\ fpc = "idle" /\ fterm = <<>> /\ ftier1 = <<>> /\ fattempts = <<>>
    /\ fpayload = <<>> /\ flimit = <<>> /\ farticle = TRUE /\ fout = <<>>

(***************************************************************************)
(* SearchService.parse_terms over the raw string, the sequence of its      *)
(* characters: "a" and "b" are characters of a term, "," the comma and     *)
(* " " a whitespace character.                                             *)
(***************************************************************************)
RawChars == {"a", "b", ",", " "}
Separators == {",", " "}

RECURSIVE ReSplitFrom(_, _, _)
ReSplitFrom(s, piece, in_separator) ==
    IF s = <<>> THEN <<piece>>
    ELSE IF Head(s) \in Separators
    THEN IF in_separator THEN ReSplitFrom(Tail(s), piece, TRUE)
         ELSE <<piece>> \o ReSplitFrom(Tail(s), <<>>, TRUE)
    ELSE ReSplitFrom(Tail(s), Append(piece, Head(s)), FALSE)

\* re.split(r"[,\s]+", s): the pieces between the separator runs, an empty
\* piece before a leading run and after a trailing one
ReSplit(s) == ReSplitFrom(s, <<>>, FALSE)

RECURSIVE FilterNone(_)
\* filter(None, parts), then "normalized = part.strip()" and the skip of an
\* empty normalized
FilterNone(parts) ==
    IF parts = <<>> THEN <<>>
    ELSE LET normalized == Strip(Head(parts))
         IN  IF Head(parts) = <<>> \/ normalized = <<>> THEN FilterNone(Tail(parts))
             ELSE <<normalized>> \o FilterNone(Tail(parts))

RawStrings == SeqsUpTo(RawChars, MaxRawLen)

NoParse == [terms |-> <<>>, duplicates |-> <<>>, duplicateCount |-> 0]

ParseInit ==
    /\ ppc = "idle"
    /\ praw = <<>>
    /\ pret = NoParse

parse_terms_call ==
    /\ ppc = "idle"
    /\ \E raw_terms \in RawStrings :
          /\ praw' = raw_terms
          /\ pret' = parse_terms(FilterNone(ReSplit(Strip(raw_terms))))
    /\ ppc' = "returned"
    /\ UNCHANGED <<batchVars, regionVars, sessVars, fetchVars, extractVars,
                   totalVars, limitVars>>

ParseNext == parse_terms_call

ParseIdleRest == ppc = "idle" /\ praw = <<>> /\ pret = <<>>

(***************************************************************************)
(* SearchService._extract_product_info over the price and image entries of *)
(* a product attribute mapping.  An entry is missing, falsy (None, 0, "",  *)
(* an empty container), a truthy value that is not a mapping ("nonmap"),   *)
(* or a mapping.  An amount is missing, None, a number, a numeric string,  *)
(* a string float() rejects, or a value float() cannot take at all.        *)
(***************************************************************************)
AMissing == [t |-> "missing", v |-> 0]
ANone == [t |-> "none", v |-> 0]

Amounts ==
    {AMissing, ANone, [t |-> "badstr", v |-> 0], [t |-> "other", v |-> 0],
     [t |-> "numstr", v |-> 1]}
    \cup {[t |-> "num", v |-> n] : n \in 0..MaxAmount}

\* price.current and price.original
PriceBlocks ==
    {[k |-> kind, amount |-> AMissing] : kind \in {"missing", "falsy", "nonmap"}}
    \cup {[k |-> "map", amount |-> a] : a \in Amounts}

\* price.unit, with its current block and its label
UnitBlocks ==
    {[k |-> kind, current |-> "missing", label |-> FALSE] :
        kind \in {"missing", "falsy", "nonmap"}}
    \cup {[k |-> "map", current |-> c, label |-> l] :
             c \in {"missing", "nonmap", "map"}, l \in BOOLEAN}

NoBlock == [k |-> "missing", amount |-> AMissing]
NoUnit == [k |-> "missing", current |-> "missing", label |-> FALSE]

Prices ==
    {[k |-> kind, current |-> NoBlock, original |-> NoBlock, unit |-> NoUnit] :
        kind \in {"missing", "falsy", "nonmap"}}
    \cup {[k |-> "map", current |-> c, original |-> o, unit |-> u] :
             c \in PriceBlocks, o \in PriceBlocks, u \in UnitBlocks}

\* image: missing, not a mapping, a mapping without baseUrl, one with it
ImageKinds == {"missing", "nonmap", "map", "mapWithBaseUrl"}

ProductMappings == [price : Prices, image : ImageKinds]

\* a field of the returned record: None, or the value found
NoneField == [t |-> "none", v |-> 0]
IntField(n) == [t |-> "num", v |-> n]

\* x.get("amount"): a missing key reads as None
GetAmount(a) == IF a.t = "missing" THEN ANone ELSE a

\* float(x) for x that is not None: the number, or the exception raised
ToFloat(a) ==
    CASE a.t \in {"num", "numstr"} -> [ok |-> TRUE, v |-> a.v]
      [] OTHER -> [ok |-> FALSE, v |-> 0]

\* round(num / den): to the nearest integer, a tie to the even one
PyRound(num, den) ==
    LET q == num \div den
        r == num % den
    IN  IF 2 * r < den THEN q
        ELSE IF 2 * r > den THEN q + 1
        ELSE IF q % 2 = 0 THEN q ELSE q + 1

\* the try block of lines 400-406 without the "op > cp" test
DiscountNoOrderTest(current_price, original_price) ==
    LET cp == IF current_price.t # "none" THEN ToFloat(current_price)
              ELSE [ok |-> TRUE, v |-> 0]
        op == IF original_price.t # "none" THEN ToFloat(original_price)
              ELSE [ok |-> TRUE, v |-> 0]
    IN  IF ~cp.ok \/ ~op.ok THEN NoneField
        ELSE IF current_price.t # "none" /\ original_price.t # "none" /\ op.v # 0
        THEN IF op.v >= cp.v THEN IntField(PyRound((op.v - cp.v) * 100, op.v))
             ELSE IntField(-PyRound((cp.v - op.v) * 100, op.v))
        ELSE NoneField

\* the try block of lines 400-406: discount_pct
Discount(current_price, original_price) ==
    LET cp == IF current_price.t # "none" THEN ToFloat(current_price)
              ELSE [ok |-> TRUE, v |-> 0]
        op == IF original_price.t # "none" THEN ToFloat(original_price)
              ELSE [ok |-> TRUE, v |-> 0]
    IN  IF ~cp.ok \/ ~op.ok THEN NoneField
        ELSE IF current_price.t # "none" /\ original_price.t # "none" /\ op.v # 0
                /\ op.v > cp.v
        THEN IntField(PyRound((op.v - cp.v) * 100, op.v))
        ELSE NoneField

ExtractRaised ==
    [raised |-> TRUE, found |-> FALSE, currentPrice |-> NoneField,
     originalPrice |-> NoneField, discountPercentage |-> NoneField,
     unitPrice |-> "none", unitLabel |-> "none", imageUrl |-> "none"]

\* the record of lines 414-433, or AttributeError from a .get on a truthy
\* value that is not a mapping (price at 385, price.unit at 394)
_extract_product_fields(product) ==
    LET price == product.price
        price_is_map == price.k = "map"
        current_price == IF price_is_map /\ price.current.k = "map"
                         THEN GetAmount(price.current.amount) ELSE ANone
        original_price == IF price_is_map /\ price.original.k = "map"
                          THEN GetAmount(price.original.amount) ELSE ANone
        unit_is_map == price_is_map /\ price.unit.k = "map"
    IN  IF price.k = "nonmap" \/ (price_is_map /\ price.unit.k = "nonmap")
        THEN ExtractRaised
        ELSE [raised |-> FALSE,
              found |-> TRUE,
              currentPrice |-> current_price,
              originalPrice |-> original_price,
              discountPercentage |-> Discount(current_price, original_price),
              unitPrice |-> IF unit_is_map /\ price.unit.current = "map"
                            THEN "amount" ELSE "none",
              unitLabel |-> IF unit_is_map /\ price.unit.label
                            THEN "label" ELSE "none",
              imageUrl |-> CASE product.image = "mapWithBaseUrl" -> "baseUrl"
                             [] product.image = "map" -> "none"
                             [] OTHER -> "imageUrl"]

ExtractInit ==
    /\ xpc = "idle"
    /\ xproduct = [price |-> [k |-> "missing", current |-> NoBlock,
                              original |-> NoBlock, unit |-> NoUnit],
                   image |-> "missing"]
    /\ xret = ExtractRaised

extract_product_info_call ==
    /\ xpc = "idle"
    /\ \E product \in ProductMappings :
          /\ xproduct' = product
          /\ xret' = _extract_product_fields(product)
    /\ xpc' = "returned"
    /\ UNCHANGED <<batchVars, regionVars, sessVars, fetchVars, parseVars,
                   totalVars, limitVars>>

ExtractNext == extract_product_info_call

ExtractIdleRest == xpc = "idle" /\ xproduct = <<>> /\ xret = <<>>

(***************************************************************************)
(* SearchService.process_chunk as one call: the terms and the mode it is   *)
(* given, what each term's task did, and the triple it returns.            *)
(***************************************************************************)
process_chunk_completes ==
    /\ kpc = "idle"
    /\ \E terms \in TermLists, mode \in BatchModes :
          \E outcomes \in [1..Len(terms) -> TaskOutcomes] :
             /\ kterms' = terms
             /\ kmode' = mode
             /\ koutcomes' = outcomes
             /\ kret' = process_chunk(terms, outcomes, mode.limit,
                                      IF mode.article THEN "article" ELSE "general")
    /\ kpc' = "returned"
    /\ UNCHANGED <<batchVars, regionVars, sessVars, fetchVars, parseVars,
                   extractVars, limitVars>>

TotalsIdleRest ==
    /\ kpc = "idle" /\ kterms = <<>> /\ kmode = <<>> /\ koutcomes = <<>>
    /\ kret = <<>>

(***************************************************************************)
(* SearchService._resolve_limit over the limit values of a payload.        *)
(***************************************************************************)
LimitValues ==
    {IntLimit(n) : n \in (0 - MaxLimitInt)..MaxLimitInt}
    \cup {StrLimit(text) : text \in SeqsUpTo(LimitChars, MaxLimitLen)}
    \cup {OtherLimit}

resolve_limit_call ==
    /\ lpc = "idle"
    /\ \E limit \in LimitValues :
          /\ llimit' = limit
          /\ lret' = _resolve_limit(limit)
    /\ lpc' = "returned"
    /\ UNCHANGED <<batchVars, regionVars, sessVars, fetchVars, parseVars,
                   extractVars, totalVars>>

LimitIdleRest == lpc = "idle" /\ llimit = <<>> /\ lret = 0

(***************************************************************************)
(* The specifications.                                                     *)
(***************************************************************************)
OthersIdleRest ==
    /\ FetchIdleRest /\ ParseIdleRest /\ ExtractIdleRest
    /\ TotalsIdleRest /\ LimitIdleRest

Init == SessInit /\ BatchIdleRest /\ RegionIdleRest /\ OthersIdleRest
Next == SessNext
Spec == Init /\ [][Next]_vars

InitBatch == BatchInit /\ RegionIdleRest /\ SessIdleRest /\ OthersIdleRest
NextBatch == BatchNext
SpecBatch == InitBatch /\ [][NextBatch]_vars

InitRegion == RegionInit /\ BatchIdleRest /\ SessIdleRest /\ OthersIdleRest
NextRegion == RegionNext
SpecRegion == InitRegion /\ [][NextRegion]_vars

InitFetch ==
    /\ FetchInit /\ BatchIdleRest /\ RegionIdleRest /\ SessIdleRest
    /\ ParseIdleRest /\ ExtractIdleRest
    /\ TotalsIdleRest /\ LimitIdleRest
NextFetch == FetchNext
SpecFetch == InitFetch /\ [][NextFetch]_vars

InitParse ==
    /\ ParseInit /\ BatchIdleRest /\ RegionIdleRest /\ SessIdleRest
    /\ FetchIdleRest /\ ExtractIdleRest
    /\ TotalsIdleRest /\ LimitIdleRest
NextParse == ParseNext
SpecParse == InitParse /\ [][NextParse]_vars

InitExtract ==
    /\ ExtractInit /\ BatchIdleRest /\ RegionIdleRest /\ SessIdleRest
    /\ FetchIdleRest /\ ParseIdleRest
    /\ TotalsIdleRest /\ LimitIdleRest
NextExtract == ExtractNext
SpecExtract == InitExtract /\ [][NextExtract]_vars

InitTotals ==
    /\ kpc = "idle"
    /\ kterms = <<>>
    /\ kmode = [limit |-> LimitAll, article |-> TRUE]
    /\ koutcomes = <<>>
    /\ kret = NoReturn
    /\ BatchIdleRest /\ RegionIdleRest /\ SessIdleRest
    /\ FetchIdleRest /\ ParseIdleRest /\ ExtractIdleRest /\ LimitIdleRest
NextTotals == process_chunk_completes
SpecTotals == InitTotals /\ [][NextTotals]_vars

InitLimit ==
    /\ lpc = "idle"
    /\ llimit = OtherLimit
    /\ lret = 0
    /\ BatchIdleRest /\ RegionIdleRest /\ SessIdleRest
    /\ FetchIdleRest /\ ParseIdleRest /\ ExtractIdleRest /\ TotalsIdleRest
NextLimit == resolve_limit_call
SpecLimit == InitLimit /\ [][NextLimit]_vars

(***************************************************************************)
(* Claims about process_chunk, checked under SpecBatch.                    *)
(***************************************************************************)
SomeRaised == \E i \in DOMAIN fut : fut[i].state = "done" /\ fut[i].raised
SomeFound == \E i \in DOMAIN fut : fut[i].state = "done" /\ ~fut[i].raised /\ fut[i].count > 0
SomeFailed == \E i \in DOMAIN fut : fut[i].state = "done" /\ ~fut[i].raised /\ fut[i].count = 0

\* C1: when process_chunk returns for a non-empty list of N terms, the
\* processed count it returns is N, whatever each term's task did (found
\* products, fetched nothing, raised).
C1_ProcessedEqualsTermCount ==
    (bpc = "returned" /\ bterms # <<>>) => bret.processed = Len(bterms)

\* a batch of two terms has returned, one task having raised and the other
\* having fetched nothing
C1_Witness ==
    /\ bpc = "returned" /\ Len(bterms) = 2
    /\ SomeRaised /\ SomeFailed
    /\ bret.processed = 2

\* C2: when process_chunk returns, every input term is the searchTerm of at
\* least one returned record, whatever its task did; nothing is said of the
\* order of the records.
C2_EveryTermHasARecord ==
    bpc = "returned" =>
        \A i \in DOMAIN bterms :
            \E j \in DOMAIN bret.results : bret.results[j].searchTerm = bterms[i]

\* a batch over two different terms has returned, one task having raised and
\* the other having fetched nothing, and the records are not in input order
C2_Witness ==
    /\ bpc = "returned" /\ Len(bterms) = 2 /\ bterms[1] # bterms[2]
    /\ SomeRaised /\ SomeFailed
    /\ Len(bret.results) = 2
    /\ bret.results[1].searchTerm = bterms[2]

\* what the future of index i adds to the records: the retry record when
\* its task raised, the task's own list otherwise
Contribution(i) ==
    IF fut[i].raised THEN <<_not_found(bterms[i], "retry")>> ELSE fut[i].list

CountIn(seq, x) == Cardinality({j \in DOMAIN seq : seq[j] = x})

RECURSIVE ContributedCopies(_, _)
ContributedCopies(x, n) ==
    IF n = 0 THEN 0 ELSE ContributedCopies(x, n - 1) + CountIn(Contribution(n), x)

RECURSIVE ContributedRecords(_)
ContributedRecords(n) ==
    IF n = 0 THEN 0 ELSE ContributedRecords(n - 1) + Len(Contribution(n))

RECURSIVE ContributedFound(_)
ContributedFound(n) ==
    IF n = 0 THEN 0
    ELSE ContributedFound(n - 1) + (IF fut[n].raised THEN 0 ELSE fut[n].count)

\* C11: when a term's task raises, process_chunk still returns; the returned
\* records are, as a multiset, one retry record for each term whose task
\* raised together with the lists the other tasks returned, and total_found
\* is the sum of the other tasks' counts: a raising task changes nothing of
\* what its siblings contribute.
C11_RaisingTaskIsIsolated ==
    (bpc = "returned" /\ bterms # <<>>) =>
        /\ Len(bret.results) = ContributedRecords(Len(bterms))
        /\ \A x \in {bret.results[j] : j \in DOMAIN bret.results} :
              CountIn(bret.results, x) = ContributedCopies(x, Len(bterms))
        /\ \A i \in DOMAIN fut :
              fut[i].raised =>
                  CountIn(bret.results, _not_found(bterms[i], "retry")) =
                      Cardinality({k \in DOMAIN fut :
                                      fut[k].raised /\ bterms[k] = bterms[i]})
        /\ bret.total_found = ContributedFound(Len(bterms))

\* a batch of two terms has returned; the task consumed first found two
\* products, the task of the other term raised afterwards
C11_Witness ==
    /\ bpc = "returned" /\ Len(bterms) = 2
    /\ SomeRaised /\ SomeFound
    /\ Len(bret.results) = 3
    /\ bret.results[3].notFoundMessage = "retry"
    /\ bret.total_found = 2

\* C23: during a process_chunk call over N >= 1 terms there is one task for
\* each term, repeated terms included: N futures, the one of index i for
\* terms[i], all of them finished when the call returns; and in no state are
\* more than max(1, min(cfg.max_workers, N)) of them running.
C23_OneTaskPerTermBoundedPool ==
    (bpc # "idle" /\ bterms # <<>>) =>
        LET N == Len(bterms)
            smaller == IF cfgWorkers < N THEN cfgWorkers ELSE N
            bound == IF smaller < 1 THEN 1 ELSE smaller
        IN  /\ Len(fut) = N
            /\ Cardinality({i \in DOMAIN fut : fut[i].state = "running"}) <= bound
            /\ \A i \in DOMAIN fut : fut[i].state \in {"queued", "running", "done"}
            /\ bpc = "returned" => \A i \in DOMAIN fut : fut[i].state = "done"
            /\ \A i \in yielded : fut[i].state = "done"

\* the same term twice with cfg.max_workers = 1: the first task is running
\* while the second waits for the worker
C23_Witness ==
    /\ bpc = "loop" /\ cfgWorkers = 1
    /\ bterms = <<"t1", "t1">>
    /\ fut[1].state = "running" /\ fut[2].state = "queued"

IdentityFields(rec) ==
    <<rec.productId, rec.retailerProductId, rec.name, rec.brand, rec.category,
      rec.imageUrl>>

ReturnedRecords == {bret.results[j] : j \in DOMAIN bret.results}

\* C21, as stated: every record process_chunk returns is a populated record
\* (found = true) or a not-found record, and every not-found record has
\* found = false and productId, retailerProductId, name, brand, category
\* and imageUrl all null, with searchTerm and notFoundMessage set.
C21_NotFoundIdentityAllNull ==
    (bpc = "returned") =>
        \A rec \in ReturnedRecords :
            /\ rec.found \in BOOLEAN
            /\ ~rec.found =>
                  /\ \A k \in {1, 2, 4, 5, 6} : IdentityFields(rec)[k] = "none"
                  /\ rec.name = <<"none">>
                  /\ rec.searchTerm \in Terms
                  /\ rec.notFoundMessage # "absent"

\* C21, amended: every record process_chunk returns is a populated record
\* (found = true, no notFoundMessage) or a not-found record (found = false,
\* a notFoundMessage); every not-found record has productId,
\* retailerProductId, brand, category and imageUrl null, the name
\* "Article Not Found: " + searchTerm, available = false, and the
\* searchTerm of a term of the batch.
C21_NotFoundRecordShape ==
    (bpc = "returned") =>
        \A rec \in ReturnedRecords :
            /\ rec.found \in BOOLEAN
            /\ rec.found <=> rec.notFoundMessage = "absent"
            /\ \E i \in DOMAIN bterms : rec.searchTerm = bterms[i]
            /\ ~rec.found =>
                  /\ rec.productId = "none"
                  /\ rec.retailerProductId = "none"
                  /\ rec.brand = "none"
                  /\ rec.category = "none"
                  /\ rec.imageUrl = "none"
                  /\ rec.name = <<"Article Not Found: ", rec.searchTerm>>
                  /\ rec.available = "false"
                  /\ rec.notFoundMessage \in {"default", "retry"}

\* a batch of two terms has returned the not-found record of a term that
\* fetched nothing and the retry record of a term whose task raised
C21_Witness ==
    /\ bpc = "returned" /\ Len(bterms) = 2
    /\ \E rec \in ReturnedRecords : ~rec.found /\ rec.notFoundMessage = "default"
    /\ \E rec \in ReturnedRecords : ~rec.found /\ rec.notFoundMessage = "retry"
    /\ \A rec \in ReturnedRecords : rec.name = <<"Article Not Found: ", rec.searchTerm>>

(***************************************************************************)
(* Claims about the totals of process_chunk, checked under SpecTotals.     *)
(***************************************************************************)
\* the number of entities in the product mapping of a fetched payload, 0
\* when there is no payload or its product mapping is no mapping
EntityCount(payload) == IF payload.kind = "map" THEN Len(payload.ents) ELSE 0

RECURSIVE FetchedEntities(_)
FetchedEntities(n) ==
    IF n = 0 THEN 0
    ELSE FetchedEntities(n - 1) + EntityCount(koutcomes[n].payload)

\* C24: the total_found process_chunk returns is the sum, over the terms,
\* of the number of entities in the product mapping the term's fetch
\* obtained, before any cut by article mode or by the limit; a term with no
\* payload, or with an empty or non-mapping product mapping, counts 0.
C24_TotalFoundIsFetchedSum ==
    kpc = "returned" => kret.total_found = FetchedEntities(Len(kterms))

(***************************************************************************)
(* Claims about _resolve_limit, checked under SpecLimit.                   *)
(***************************************************************************)
\* the word "all" in some letter case
IsAllLiteral(text) ==
    /\ Len(text) = 3
    /\ text[1] \in {"a", "A"}
    /\ text[2] \in {"l", "L"}
    /\ text[3] \in {"l", "L"}

RECURSIVE Pow10(_)
Pow10(n) == IF n = 0 THEN 1 ELSE 10 * Pow10(n - 1)

RECURSIVE PlaceSum(_, _)
\* the sum of the first k digits of ds, each times the power of ten of its place
PlaceSum(ds, k) ==
    IF k = 0 THEN 0
    ELSE PlaceSum(ds, k - 1) + (IF ds[k] = "5" THEN 5 ELSE 1) * Pow10(Len(ds) - k)

\* core is a decimal numeral: digits, or a minus sign and digits
IsNumeral(core) ==
    LET ds == IF core[1] = "-" THEN Tail(core) ELSE core
    IN  ds # <<>> /\ \A k \in DOMAIN ds : ds[k] \in {"1", "5"}

NumeralValue(core) ==
    IF core[1] = "-" THEN 0 - PlaceSum(Tail(core), Len(core) - 1)
    ELSE PlaceSum(core, Len(core))

\* the integers an integer-valued string stands for: the text is a numeral
\* with whitespace around it (no integer for any other text)
IntegerReadings(text) ==
    {NumeralValue(SubSeq(text, p[1], p[2])) :
        p \in {q \in (DOMAIN text) \X (DOMAIN text) :
                  /\ q[1] <= q[2]
                  /\ \A k \in DOMAIN text : (k < q[1] \/ k > q[2]) => text[k] = " "
                  /\ IsNumeral(SubSeq(text, q[1], q[2]))}}

Clamped(n) == IF n < 1 THEN 1 ELSE IF n > 50 THEN 50 ELSE n

\* C25: _resolve_limit returns an integer of 1..50: 50 for the string "all"
\* in any letter case, max(1, min(n, 50)) for the integer n and for a string
\* that stands for the integer n, and 10 for every other value.
C25_ResolveLimitRange ==
    lpc = "returned" =>
        /\ lret \in 1..50
        /\ llimit.t = "int" => lret = Clamped(llimit.v)
        /\ llimit.t = "str" =>
              IF IsAllLiteral(llimit.v) THEN lret = 50
              ELSE IF IntegerReadings(llimit.v) # {}
              THEN \A n \in IntegerReadings(llimit.v) : lret = Clamped(n)
              ELSE lret = 10
        /\ llimit.t = "other" => lret = 10

\* the string "55 ": an integer above the cap, with whitespace after it
C25_Witness ==
    /\ lpc = "returned"
    /\ llimit = StrLimit(<<"5", "5", " ">>)
    /\ lret = 50

(***************************************************************************)
(* Claims about the session counters and status, checked under Spec.       *)
(***************************************************************************)
InFlight(s) == {r \in Reqs : req[r].pc # "idle" /\ req[r].sid = s}

\* C3: no step lowers the stored processed_terms or total_products of a
\* session, overlapping chunk submissions included.
C3_CountersNeverDecrease ==
    [][\A s \in SessionIds :
          (s \in DOMAIN sessions /\ s \in DOMAIN sessions') =>
              /\ sessions'[s].processed_terms >= sessions[s].processed_terms
              /\ sessions'[s].total_products >= sessions[s].total_products]_vars

\* C4: once every submitted chunk of a session has finished, the stored
\* processed_terms is the sum of the chunks' processed counts and the stored
\* total_products the sum of their record counts, which is the number of
\* rows they have stored for the session.
C4_CountersAreSums ==
    \A s \in DOMAIN sessions :
        InFlight(s) = {} =>
            /\ sessions[s].processed_terms = doneProcessed[s]
            /\ sessions[s].total_products = products[s]

\* C5: in every state the stored status of a session is completed exactly
\* when processed_terms >= total_terms and total_terms > 0; a row a chunk
\* submission has written holds completed or processing, and the status
\* insert_session wrote stands only while processed_terms is 0.
C5_CompletedIffAllProcessed ==
    \A s \in DOMAIN sessions :
        /\ sessions[s].status = "completed" <=>
               (sessions[s].processed_terms >= sessions[s].total_terms
                /\ sessions[s].total_terms > 0)
        /\ sessions[s].status \in {"active", "processing", "completed"}
        /\ sessions[s].status = "active" => sessions[s].processed_terms = 0

\* a session of two terms is completed after two submissions that overlapped
\* left the counter short of the sum of what they processed
C5_Witness ==
    \E s \in DOMAIN sessions :
        /\ sessions[s].status = "completed"
        /\ sessions[s].total_terms = 2
        /\ InFlight(s) = {}
        /\ sessions[s].processed_terms < doneProcessed[s]

\* C6: once the stored status of a session is completed, no step stores
\* another status for it.
C6_CompletedIsTerminal ==
    [][\A s \in SessionIds :
          (s \in DOMAIN sessions /\ sessions[s].status = "completed"
           /\ s \in DOMAIN sessions') => sessions'[s].status = "completed"]_vars

\* C26: for every session that has a row, the stored total_products is at
\* most the number of product rows persisted for it, whatever the
\* interleaving of the chunk submissions.
C26_TotalProductsAtMostPersisted ==
    \A s \in DOMAIN sessions : sessions[s].total_products <= products[s]

\* two overlapping submissions have both finished: the counter holds the
\* records of the last writer, the table the records of both
C26_Witness ==
    \E s \in DOMAIN sessions :
        /\ \A r \in Reqs : req[r].pc = "idle"
        /\ accepted = 2
        /\ sessions[s].total_products > 0
        /\ sessions[s].total_products < products[s]

\* the step in which a session start leaves its region check
StartChecked == sreq.pc = "resolved" /\ sreq'.pc = "idle"

\* C27: a session start whose region lookup gave regionId = None is answered
\* with the validation error and creates no session; a session row is
\* created only by a start whose lookup gave a regionId, and holds its text; so
\* every session row has a regionId that is not None, and the batch of every
\* chunk submission is called with the regionId of its session's row.
C27_SessionOnlyWithResolvedRegion ==
    [][/\ (StartChecked /\ sreq.region_id = None) =>
              /\ resp' = ErrorResponse("start", 400, "Unable to resolve region")
              /\ sessions' = sessions
              /\ created' = created
       /\ created' # created =>
              /\ StartChecked
              /\ sreq.region_id # None
              /\ sessions'[created'].region_id.t = "str"
              /\ sessions'[created'].region_id.s = sreq.region_id.s
       /\ \A s \in DOMAIN sessions' : sessions'[s].region_id # None
       /\ \A r \in Reqs :
              req'[r].pc = "stored" =>
                  /\ req'[r].region_id # None
                  /\ req'[r].sid \in DOMAIN sessions' =>
                         req'[r].region_id = sessions'[req'[r].sid].region_id]_vars

\* a start was refused for its unresolved region while a chunk of the one
\* session created was between its batch and its counters
C27_Witness ==
    /\ resp = ErrorResponse("start", 400, "Unable to resolve region")
    /\ created = 1
    /\ DOMAIN sessions = {1}
    /\ \E r \in Reqs :
           /\ req[r].pc = "stored"
           /\ req[r].sid = 1
           /\ req[r].region_id = sessions[1].region_id
           /\ req[r].region_id = PyStr(<<"a", "2">>)

\* C7: a session created with total_terms = 0 has the stored status pending,
\* at its creation and ever after.
C7_ZeroTermSessionStaysPending ==
    \A s \in DOMAIN sessions :
        sessions[s].total_terms = 0 => sessions[s].status = "pending"

(***************************************************************************)
(* Claims about get_region_info, checked under SpecRegion.                 *)
(***************************************************************************)
Salvaged == rpc = "returned" /\ rup.kind = "response" /\ rup.status # 200

HasRegionIdPair == rbody.regionId.form \in {"quoted", "bare"} /\ rbody.regionId.chars # <<>>

AllHex(cs) == \A i \in DOMAIN cs : cs[i] \in HexChars

ErrorNicknames == {PyStr(<<"Timeout">>), PyStr(<<"Error">>), PyStr(<<"Unknown">>)}

\* C8: get_region_info never raises: every upstream outcome ends in a
\* returned RegionInfo.
C8_NeverRaises ==
    rpc = "returned" => ~rresult.raised

C10_RegionInfoShape ==
    (rpc = "returned" /\ ~rresult.raised) =>
        IF rresult.regionId # None
        THEN /\ rresult.nickname # None
             /\ \/ rresult.nickname = RegionNickname(rresult.regionId)
                \/ /\ rresult.nickname = JsonValue(rbody.nickname)
                   /\ Truthy(rresult.nickname)
        ELSE /\ rresult.nickname \in ErrorNicknames
             /\ rresult.postalCode = None

\* a 200 response with a regionId and no nickname gave "Region " + regionId
C10_Witness ==
    /\ rpc = "returned" /\ rup.kind = "response" /\ rup.status = 200
    /\ rbody.valid /\ rbody.top = "object"
    /\ rbody.regionId = [form |-> "quoted", chars |-> <<"R", "2">>]
    /\ rbody.nickname.form = "absent"
    /\ ~rresult.raised
    /\ rresult.regionId = PyStr(<<"R", "2">>)
    /\ rresult.nickname = RegionNickname(PyStr(<<"R", "2">>))

(***************************************************************************)
(* Claims about the tiers of one fetch, checked under SpecFetch.           *)
(***************************************************************************)
Attempted(tier) == \E i \in DOMAIN fattempts : fattempts[i] = tier

SearchEnded == fpc \notin {"idle", "tier1"}

FetchReturned == fpc \in {"fetched", "returned"}

\* the identifier shape: only characters of [A-Za-z0-9_-], at least 3 of them
InIdShape(term) == Len(term) >= 3 /\ AllIdChars(term)

\* C12: when the search request times out or fails in transport,
\* _fetch_product_data returns None at once: neither the page lookup nor
\* the regex salvage is attempted, whatever the term.
C12_NoTierAfterFailedSearch ==
    (SearchEnded /\ ftier1.kind \in {"timeout", "error"}) =>
        /\ FetchReturned
        /\ fpayload = NonePayload
        /\ fattempts = <<1>>

\* the search request for a term of identifier shape timed out, and the task
\* has returned its not-found record
C12_Witness ==
    /\ fpc = "returned"
    /\ ftier1.kind = "timeout"
    /\ InIdShape(fterm)
    /\ fattempts = <<1>>
    /\ fout.list = <<_not_found(fterm, "none")>>

\* C13: the page lookup is attempted only after a non-200 search response
\* and only for a term of identifier shape, a non-200 response for any other
\* term ending the fetch with None; the regex salvage is attempted only
\* after a 200 response with a product marker that is not JSON; the two are
\* never attempted in one fetch.
C13_TierGating ==
    SearchEnded =>
        /\ Attempted(2) =>
              /\ ftier1.kind = "response" /\ ftier1.status # 200
              /\ InIdShape(fterm)
        /\ (ftier1.kind = "response" /\ ftier1.status # 200 /\ ~InIdShape(fterm)) =>
              /\ FetchReturned
              /\ fpayload = NonePayload
        /\ Attempted(3) =>
              /\ ftier1.kind = "response" /\ ftier1.status = 200
              /\ ftier1.marker /\ ~ftier1.parses
        /\ ~(Attempted(2) /\ Attempted(3))

\* C14: a 200 search response whose body holds no product marker makes
\* _fetch_product_data return the empty-result payload, not None, with no
\* other tier attempted, and the task return one not-found record and the
\* count 0.
C14_MarkerlessBodyIsEmptyResult ==
    (SearchEnded /\ ftier1.kind = "response" /\ ftier1.status = 200 /\ ~ftier1.marker) =>
        /\ FetchReturned
        /\ fpayload = EmptyPayload
        /\ fpayload # NonePayload
        /\ fattempts = <<1>>
        /\ fpc = "returned" =>
              fout = [list |-> <<_not_found(fterm, "none")>>, count |-> 0]

\* a 200 response without a marker, whose body is not JSON either, has been
\* turned into one not-found record
C14_Witness ==
    /\ fpc = "returned"
    /\ ftier1.kind = "response" /\ ftier1.status = 200
    /\ ~ftier1.marker /\ ~ftier1.parses
    /\ fpayload = EmptyPayload
    /\ Len(fout.list) = 1 /\ ~fout.list[1].found

AllMappings(payload) ==
    /\ payload.kind = "map"
    /\ Len(payload.ents) >= 1
    /\ \A i \in DOMAIN payload.ents : payload.ents[i] = "dict"

FailedSearches == {t1 \in Tier1Outcomes : t1.kind \in {"timeout", "error"}}

\* what the task of fterm returns when its search request fails
OutputOfFailedFetch(t1) ==
    _process_term(fterm, _fetch_product_data(fterm, t1).payload, flimit, farticle)

\* C22: what a task returns for a term whose lookup legitimately found
\* nothing (the empty-result payload of a 200 response without a product
\* marker) differs from what it returns for the same term when the fetch
\* fails (None after a timeout or a transport error): the records or the
\* count tell the two apart.
C22_EmptyResultDistinctFromFailure ==
    (fpc = "returned" /\ ftier1.kind = "response" /\ ftier1.status = 200
     /\ ~ftier1.marker /\ fpayload = EmptyPayload) =>
        \A t1 \in FailedSearches : fout # OutputOfFailedFetch(t1)

(***************************************************************************)
(* Claims about parse_terms, checked under SpecParse.                      *)
(***************************************************************************)
\* the tokens of a raw string: its maximal runs of characters that are
\* neither a comma nor whitespace, in input order
TokenStarts(raw) ==
    {i \in DOMAIN raw : raw[i] \notin Separators /\ (i = 1 \/ raw[i - 1] \in Separators)}

TokenEnd(raw, i) ==
    CHOOSE j \in i..Len(raw) :
        /\ \A k \in i..j : raw[k] \notin Separators
        /\ j = Len(raw) \/ raw[j + 1] \in Separators

RECURSIVE TokensFrom(_, _)
TokensFrom(raw, i) ==
    IF i > Len(raw) THEN <<>>
    ELSE IF i \in TokenStarts(raw)
    THEN <<SubSeq(raw, i, TokenEnd(raw, i))>> \o TokensFrom(raw, i + 1)
    ELSE TokensFrom(raw, i + 1)

TokensOf(raw) == TokensFrom(raw, 1)

\* the elements of seq at the positions in keep, in order
AtPositions(seq, keep) ==
    LET idx == SelectSeq2([i \in DOMAIN seq |-> i], keep)
    IN  [k \in DOMAIN idx |-> seq[idx[k]]]

\* C16: parse_terms puts every token of the raw string in exactly one of
\* terms and duplicates: terms is the first occurrence of each distinct
\* token in input order, without repeats; duplicates is every later
\* occurrence in input order; the lengths add up to the token count;
\* duplicateCount is len(duplicates); the empty input gives two empty lists.
C16_TermsAndDuplicatesPartitionTokens ==
    ppc = "returned" =>
        LET tokens == TokensOf(praw)
            firsts == {i \in DOMAIN tokens : \A j \in 1..(i - 1) : tokens[j] # tokens[i]}
        IN  /\ pret.terms = AtPositions(tokens, firsts)
            /\ pret.duplicates = AtPositions(tokens, DOMAIN tokens \ firsts)
            /\ Len(pret.terms) + Len(pret.duplicates) = Len(tokens)
            /\ \A i, j \in DOMAIN pret.terms : i # j => pret.terms[i] # pret.terms[j]
            /\ pret.duplicateCount = Len(pret.duplicates)
            /\ praw = <<>> => (pret.terms = <<>> /\ pret.duplicates = <<>>)

\* the raw string "b,b ": a token that comes back after a comma, and a
\* trailing whitespace
C16_Witness ==
    /\ ppc = "returned"
    /\ praw = <<"b", ",", "b", " ">>
    /\ pret.terms = << <<"b">> >>
    /\ pret.duplicates = << <<"b">> >>
    /\ pret.duplicateCount = 1

(***************************************************************************)
(* Claims about the errors of the handlers, checked under Spec.            *)
(***************************************************************************)
\* the step sends this response
Sends(response) == resp' # resp /\ resp' = response

\* the step takes a chunk submission past validation, to its batch
Accepts(r) == req[r].pc = "idle" /\ req'[r].pc = "loaded"

StoreUnchanged == sessions' = sessions /\ products' = products

ValidationErrors ==
    {"globalSid is required", "searchTerm is required", "terms list is required"}

\* C17: a chunk submission for an id without a session row is answered 404
\* before any batch: the step that answers it stores no product rows, changes
\* no session row and starts no batch, and no submission reaches its batch
\* for an id that has no row.
C17_MissingSessionIsNotFound ==
    [][/\ Sends(ErrorResponse("chunk", 404, "Session not found")) =>
              /\ StoreUnchanged
              /\ req' = req
              /\ \E s \in SessionIds : s \notin DOMAIN sessions
       /\ \A r \in Reqs :
              Accepts(r) => /\ req'[r].sid \in DOMAIN sessions
                            /\ req'[r].session = sessions[req'[r].sid]]_vars

\* the 404 was sent for a session that had been created, had a chunk
\* processed, and was deleted
C17_Witness ==
    /\ resp = ErrorResponse("chunk", 404, "Session not found")
    /\ created = 1
    /\ sessions = <<>>
    /\ doneProcessed[1] > 0
    /\ products[1] = 0

\* C18: a validation error leaves the store as it was: the step that answers
\* a missing credential or a blank or empty term input creates no session,
\* stores no product rows, changes no session row and starts no batch; no
\* submission reaches its batch with an empty term list.
C18_ValidationErrorsChangeNothing ==
    [][/\ (resp' # resp /\ resp'.error \in ValidationErrors) =>
              /\ resp'.code = 400
              /\ StoreUnchanged
              /\ req' = req
              /\ created' = created
       /\ \A r \in Reqs : Accepts(r) => req'[r].terms # <<>>
       /\ created' # created => resp'.error = "none"]_vars

\* an empty term list was refused for a session that a chunk had advanced
\* before: the row still holds what that chunk wrote
C18_Witness ==
    /\ resp = ErrorResponse("chunk", 400, "terms list is required")
    /\ \E s \in DOMAIN sessions :
          /\ sessions[s].status = "processing"
          /\ sessions[s].processed_terms = 1
          /\ sessions[s].total_products = products[s]
          /\ InFlight(s) = {}

(***************************************************************************)
(* Claims about _extract_product_info, checked under SpecExtract.          *)
(***************************************************************************)
\* the amount of a price block that is a mapping with a numeric amount
NumericAmount(block) == block.k = "map" /\ block.amount.t = "num"

\* an amount the record cannot take from the product: the price, the block
\* or the amount entry is missing or None
AbsentAmount(product, block) ==
    \/ product.price.k \in {"missing", "falsy"}
    \/ block.k \in {"missing", "falsy"}
    \/ block.k = "map" /\ block.amount.t \in {"missing", "none"}

\* d is num / den rounded to the nearest integer, a tie going to the even one
IsRounded(d, num, den) ==
    LET twice == 2 * (d * den - num)
    IN  /\ -den <= twice /\ twice <= den
        /\ (twice = den \/ twice = -den) => d % 2 = 0

\* C19: with a numeric current amount c and a numeric original amount o,
\* discountPercentage is round(((o - c) / o) * 100) when o > c and None when
\* o <= c; it is None when either amount is missing.
C19_DiscountPercentage ==
    (xpc = "returned" /\ ~xret.raised) =>
        LET price == xproduct.price
        IN  /\ (price.k = "map" /\ NumericAmount(price.current)
                /\ NumericAmount(price.original)) =>
                   LET c == price.current.amount.v
                       o == price.original.amount.v
                   IN  /\ o > c =>
                          /\ xret.discountPercentage.t = "num"
                          /\ IsRounded(xret.discountPercentage.v, (o - c) * 100, o)
                       /\ o <= c => xret.discountPercentage = NoneField
            /\ (AbsentAmount(xproduct, price.current)
                \/ AbsentAmount(xproduct, price.original)) =>
                   xret.discountPercentage = NoneField

\* current 7 and original 8: the quotient 12.5 is rounded to 12
C19_Witness ==
    /\ xpc = "returned" /\ ~xret.raised
    /\ xret.currentPrice = [t |-> "num", v |-> 7]
    /\ xret.originalPrice = [t |-> "num", v |-> 8]
    /\ xret.discountPercentage = IntField(12)

\* C20: _extract_product_info raises for no product attribute mapping.
C20_NeverRaises ==
    xpc = "returned" => ~xret.raised

====
